---- MODULE Spec2Model ----
(***************************************************************************)
(* A model of strava-komoot-sync: the Strava client (token handling,       *)
(* paginated listing, detail/streams/export requests, the stream-based     *)
(* fallback), the Komoot client (lazy authentication, upload), the sync    *)
(* manager (single, bulk and date-range transfers, the sync log) and the   *)
(* sync command of the CLI.                                                *)
(*                                                                         *)
(* The program is sequential.  One step of the model is one exchange with  *)
(* the outside world (an HTTP request with the header construction that    *)
(* precedes it, a Komoot library call, a file access) together with the    *)
(* local code that runs up to the next exchange.  The clock may advance    *)
(* between two steps.  The outcome of every exchange is chosen by the      *)
(* environment.                                                            *)
(***************************************************************************)
EXTENDS Integers, Sequences, FiniteSets, TLC

\* ------------------------------------------------------------------ bounds
MaxTime == 1        \* the clock runs from 0 to MaxTime
NumTokens == 1      \* distinct access tokens the token endpoint may issue
NumAct == 2         \* activity ids the callers pass to the sync manager
MaxList == 3        \* activities the origin service lists at most
PerPage == 2        \* activities per listing page (per_page, scaled down)
MaxLog == 2         \* sync-log entries a transfer call may bring the log to
MaxSamples == 2     \* samples a sensor stream holds at most

\* --------------------------------------------------------------- constants
NoToken == 0        \* access_token = None
NoExpiry == -1      \* token_expires_at = None

VARIABLES
  access_token,      \* StravaClient.access_token
  token_expires_at,  \* StravaClient.token_expires_at
  now,               \* datetime.now().timestamp()
  connector,         \* KomootClient.connector: None, or the session it holds
  authenticated,     \* KomootClient._authenticated
  sync_log,          \* SyncManager.sync_log
  log_file,          \* the sync-log file on disk
  pc,                \* the position of the running operation, "idle" between calls
  loc,               \* the locals of the running operations
  trace,             \* the requests sent by the running operation
  last,              \* the last Strava data request, with its credential
  ret                \* the outcome of the last completed operation

vars == <<access_token, token_expires_at, now, connector, authenticated,
          sync_log, log_file, pc, loc, trace, last, ret>>

Min(a, b) == IF a < b THEN a ELSE b

Tokens == 1..NumTokens
Activities == 1..NumAct
ListIds == 1..MaxList

\* ------------------------------------------------------ the origin service
\* The vendor-defined activity type the origin service reports for an id.
TypeTable == <<"Ride", "Run", "Hike", "RoadBike">>
ActType(id) == TypeTable[((id - 1) % Len(TypeTable)) + 1]
ActName(id) == id

\* Duplicate-free sequences of listed activities, of every length up to n.
RECURSIVE SeqsUpTo(_, _)
SeqsUpTo(S, n) ==
  IF n = 0 THEN {<<>>}
  ELSE LET shorter == SeqsUpTo(S, n - 1) IN
       shorter \cup {Append(s, x) : s \in {t \in shorter : Len(t) = n - 1}, x \in S}

Range(s) == {s[i] : i \in 1..Len(s)}
NoDup(s) == Cardinality(Range(s)) = Len(s)
Listings(n) == {s \in SeqsUpTo(ListIds, n) : NoDup(s)}

\* The page the origin service answers for params['page'] = page.
PageOf(listing, page) ==
  LET first == (page - 1) * PerPage + 1
      lastIx == Min(page * PerPage, Len(listing))
  IN  IF first > lastIx THEN <<>> ELSE SubSeq(listing, first, lastIx)

\* requests.get ends with a response, or raises a RequestException
\* (raise_for_status on an error status, or a connection error).
HttpStatus == {"ok", "http_error", "network_error"}

\* ------------------------------------------------------------ StravaClient
\* authenticate(): the outcomes of the token exchange.  "True": both keys
\* stored.  "False": RequestException.  "KeyError": the response lacks
\* access_token (nothing stored) or expires_at (the token already stored).
Authenticate(tok, exp, t) ==
  {[res |-> "True", tok |-> n, exp |-> e] : n \in Tokens, e \in (t + 1)..(MaxTime + 1)}
  \cup {[res |-> "False", tok |-> tok, exp |-> exp]}
  \cup {[res |-> "KeyError", tok |-> tok, exp |-> exp]}
  \cup {[res |-> "KeyError", tok |-> n, exp |-> exp] : n \in Tokens}

NeedsAuthStale(tok, exp, t) == tok = NoToken

\* The condition of _ensure_authenticated.
NeedsAuth(tok, exp, t) == tok = NoToken \/ (exp # NoExpiry /\ t >= exp)

\* _ensure_authenticated(): raised is "none", "AuthError" or "KeyError".
EnsureAuthenticated(tok, exp, t) ==
  IF NeedsAuth(tok, exp, t)
  THEN {[raised |-> (IF a.res = "True" THEN "none"
                     ELSE IF a.res = "False" THEN "AuthError" ELSE "KeyError"),
         tok |-> a.tok, exp |-> a.exp, reauth |-> TRUE,
         issued |-> (IF a.res = "True" THEN a.tok ELSE NoToken)]
        : a \in Authenticate(tok, exp, t)}
  ELSE {[raised |-> "none", tok |-> tok, exp |-> exp, reauth |-> FALSE,
         issued |-> NoToken]}

\* _get_headers(): the bearer token is read after _ensure_authenticated.
HeaderToken(before, after) == after

NoReq == [kind |-> "none", status |-> "none", tok |-> NoToken, exp |-> NoExpiry, at |-> 0,
          had |-> NoToken, hadexp |-> NoExpiry, reauth |-> FALSE, issued |-> NoToken]

ExtendReplace(all_activities, activities) == activities

SamePage(page) == page

\* params['page'] += 1
NextPage(page) == page + 1

\* all_activities.extend(activities)
Extend(all_activities, activities) == all_activities \o activities

OnPageErrorDiscard(all_activities) == <<>>

\* A RequestException in the loop of get_activities: break, and the
\* activities accumulated so far are returned.
OnPageError(all_activities) == all_activities

FallsBackOnHttpError(status) == status = "http_error"

\* export_activity_gpx: `except requests.exceptions.RequestException`.
FallsBack(status) == status \in {"http_error", "network_error"}

\* One data-fetching request: header construction, then requests.get.
StravaGet(kind) ==
  {[raised |-> h.raised, tok |-> h.tok, exp |-> h.exp, sent |-> FALSE,
    status |-> "not_sent", req |-> NoReq]
   : h \in {x \in EnsureAuthenticated(access_token, token_expires_at, now)
              : x.raised # "none"}}
  \cup
  {[raised |-> "none", tok |-> h.tok, exp |-> h.exp, sent |-> TRUE,
    status |-> st,
    req |-> [kind |-> kind, status |-> st,
             tok |-> HeaderToken(access_token, h.tok),
             exp |-> h.exp, at |-> now, had |-> access_token,
             hadexp |-> token_expires_at, reauth |-> h.reauth,
             issued |-> h.issued]]
   : h \in {x \in EnsureAuthenticated(access_token, token_expires_at, now)
              : x.raised = "none"},
     st \in HttpStatus}

\* ------------------------------------------------------------- KomootClient
\* map_strava_to_komoot_sport: the static table with its fallback.
map_strava_to_komoot_sport(strava_type) ==
  CASE strava_type = "Ride" -> "touringbicycle"
    [] strava_type = "VirtualRide" -> "touringbicycle"
    [] strava_type = "EBikeRide" -> "e_touringbicycle"
    [] strava_type = "MountainBikeRide" -> "mtb"
    [] strava_type = "GravelRide" -> "mtb"
    [] strava_type = "Run" -> "jogging"
    [] strava_type = "TrailRun" -> "jogging"
    [] strava_type = "Walk" -> "hiking"
    [] strava_type = "Hike" -> "hiking"
    [] strava_type = "RoadBike" -> "racebike"
    [] OTHER -> "touringbicycle"

\* self.connector: None, a connector whose verification call raised, or a
\* connector whose verification call went through.
NoConnector == "None"

\* authenticate(): the connector is stored and _authenticated is set before
\* the verification call; either step may raise, which yields False.
KomootAuthenticate(conn, auth) ==
  {[res |-> FALSE, conn |-> conn, auth |-> auth],     \* KomootConnector(...) raises
   [res |-> FALSE, conn |-> "unverified", auth |-> TRUE],   \* get_tours() raises
   [res |-> TRUE, conn |-> "verified", auth |-> TRUE]}

\* `not self._authenticated or self.connector is None`
KomootNeedsAuth(conn, auth) == ~auth \/ conn = NoConnector

\* The outcomes of a connector call of get_tours, get_tour_by_id, delete_tour.
CallOutcomes == {"ok", "empty", "error"}

\* _ensure_authenticated() of the Komoot client.
KomootEnsure(conn, auth) ==
  IF KomootNeedsAuth(conn, auth)
  THEN {[raised |-> ~a.res, conn |-> a.conn, auth |-> a.auth, called |-> TRUE]
        : a \in KomootAuthenticate(conn, auth)}
  ELSE {[raised |-> FALSE, conn |-> conn, auth |-> auth, called |-> FALSE]}

\* upload_gpx_data after the session check: gpxpy.parse, then upload_tour.
UploadOutcomes == {"accepted", "rejected", "parse_error", "network_error"}

\* The dictionary upload_gpx_data returns when upload_tour reports success.
UploadResult(name, sport) == [name |-> name, sport |-> sport, status |-> "success"]

\* result.get('id')
TourId(result) == IF "id" \in DOMAIN result THEN result.id ELSE "null"

\* --------------------------------------------------------------- track data
NoneGpx == <<"None">>
EmptyBytes == <<>>
NativeGpx(id) == <<"native", id>>
SynthGpx(id) == <<"synth", id>>
\* The synthesized track of a latlng stream without samples: no point.
EmptySynthGpx(id) == <<"synth_empty", id>>
NeverFalsy(g) == FALSE

\* `if not gpx_data`
Falsy(g) == g = NoneGpx \/ g = EmptyBytes
\* The bodies a successful export_gpx response may carry.
NativeBodies(id) == {NativeGpx(id), EmptyBytes}
\* The bodies a successful streams response may carry.
StreamBodies == {"latlng", "latlng_empty", "no_latlng"}

\* --------------------------------------------------------------- SyncManager
SuccessEntry(t, id, name, type, tour, sport) ==
  [timestamp |-> t, strava_activity_id |-> id, strava_activity_name |-> name,
   strava_activity_type |-> type, komoot_tour_id |-> tour, komoot_sport |-> sport,
   status |-> "success"]

\* The failure entry has no komoot_tour_id and no komoot_sport key.
FailedEntry(t, id, name, type) ==
  [timestamp |-> t, strava_activity_id |-> id, strava_activity_name |-> name,
   strava_activity_type |-> type, komoot_tour_id |-> "absent",
   komoot_sport |-> "absent", status |-> "failed"]

RECURSIVE DropId(_, _)
DropId(log, id) ==
  IF log = <<>> THEN <<>>
  ELSE IF Head(log).strava_activity_id = id THEN DropId(Tail(log), id)
  ELSE <<Head(log)>> \o DropId(Tail(log), id)

LogUpsert(log, entry) == Append(DropId(log, entry.strava_activity_id), entry)

LogPrepend(log, entry) == <<entry>> \o log

\* self.sync_log.append(entry)
LogAppend(log, entry) == Append(log, entry)

\* get_synced_activity_ids(): the ids of the success entries, in log order.
RECURSIVE get_synced_activity_ids(_)
get_synced_activity_ids(log) ==
  IF log = <<>> THEN <<>>
  ELSE LET rest == get_synced_activity_ids(Tail(log)) IN
       IF Head(log).status = "success"
       THEN <<Head(log).strava_activity_id>> \o rest ELSE rest

\* is_activity_synced(activity_id)
is_activity_synced(log, activity_id) ==
  \E i \in 1..Len(get_synced_activity_ids(log)) :
     get_synced_activity_ids(log)[i] = activity_id

FilterKeepAll(acts, types) == acts

\* The type filter of sync_date_range: a.get('type') in activity_types.
RECURSIVE FilterByType(_, _)
FilterByType(acts, types) ==
  IF acts = <<>> THEN <<>>
  ELSE LET rest == FilterByType(Tail(acts), types) IN
       IF ActType(Head(acts)) \in types THEN <<Head(acts)>> \o rest ELSE rest

\* ------------------------------------------------------------------ control
NoRet == [op |-> "none", kind |-> "none", val |-> FALSE]
ZeroTally == [success |-> 0, failed |-> 0]
NoCall == [id |-> 0, before |-> 0, after |-> 0, result |-> "none"]

NoLoc ==
  [top |-> "none", page |-> 0, all_activities |-> <<>>, listing |-> <<>>,
   activity_types |-> {}, activity_ids |-> <<>>, i |-> 0, results |-> ZeroTally,
   activity_id |-> 0, sport_override |-> "", gpx_data |-> NoneGpx,
   content |-> NoneGpx,
   authfailed |-> FALSE, attempted |-> <<>>, len0 |-> 0, done |-> NoCall,
   loaded |-> {}, uploads |-> {}, synced |-> {}, path |-> "none",
   config |-> {}, export_gpx |-> FALSE, source |-> "none", nloaded |-> 0]

\* The control state after a step: where the program is, its locals, and the
\* outcome when the invoked operation has ended.
Goto(l, p) == [pc |-> p, loc |-> l, ret |-> NoRet]
Finish(l, kind, val) ==
  [pc |-> "idle", loc |-> l, ret |-> [op |-> l.top, kind |-> kind, val |-> val]]

\* An exception no frame catches ends the invoked operation.
Propagate(l, exc) == Finish(l, "raise", exc)

\* sync_activities has returned its tally to its caller.
ReturnSyncActivities(l, tally) ==
  IF l.top = "cmd_sync" THEN Goto([l EXCEPT !.results = tally], "cmd_save")
  ELSE Finish([l EXCEPT !.results = tally], "return", tally)

\* The for loop of sync_activities moves to the next id.
NextIndex(i) == i + 1

\* The head of the for loop of sync_activities: the next id, or the tally.
LoopSyncActivities(l, log) ==
  IF l.i > Len(l.activity_ids) THEN ReturnSyncActivities(l, l.results)
  ELSE Goto([l EXCEPT !.activity_id = l.activity_ids[l.i],
                      !.attempted = Append(@, l.activity_ids[l.i]),
                      !.len0 = Len(log), !.gpx_data = NoneGpx],
            "sa_detail")

\* sync_activity has returned b, with the sync log as it leaves it.
ReturnSyncActivity(l, b, log) ==
  LET d == [id |-> l.activity_id, before |-> l.len0, after |-> Len(log),
            result |-> IF b THEN "True" ELSE "False"]
      m == [l EXCEPT !.done = d,
                     !.synced = IF b THEN @ \cup {l.activity_id} ELSE @]
  IN  IF l.top = "sync_activity" THEN Finish(m, "return", b)
      ELSE LoopSyncActivities(
             [m EXCEPT !.results = IF b THEN [@ EXCEPT !.success = @ + 1]
                                   ELSE [@ EXCEPT !.failed = @ + 1],
                       !.i = NextIndex(@)], log)

\* The for loop of cmd_download over the listed activities: the export of
\* the next one, or the return code.
LoopDownload(l) ==
  IF l.i > Len(l.activity_ids) THEN Finish(l, "return", 0)
  ELSE Goto([l EXCEPT !.activity_id = l.activity_ids[l.i],
                      !.attempted = Append(@, l.activity_ids[l.i]),
                      !.gpx_data = NoneGpx], "ex_native")

\* export_activity_gpx has returned gpx to its caller: the client's caller,
\* save_activity_gpx in cmd_download, or sync_activity.
ReturnExport(l, gpx, log) ==
  IF l.top = "export_activity_gpx" THEN Finish([l EXCEPT !.gpx_data = gpx], "return", gpx)
  ELSE IF l.top = "cmd_download"
  THEN IF Falsy(gpx) THEN LoopDownload([l EXCEPT !.gpx_data = gpx, !.i = NextIndex(@)])
       ELSE Goto([l EXCEPT !.gpx_data = gpx], "dl_write")
  ELSE IF Falsy(gpx) THEN ReturnSyncActivity([l EXCEPT !.gpx_data = gpx], FALSE, log)
  ELSE Goto([l EXCEPT !.gpx_data = gpx], "sa_upload")

\* get_activities has returned acts to its caller: cmd_list prints them,
\* cmd_download saves them, sync_date_range filters them and hands the ids
\* to sync_activities.
ReturnGetActivities(l, acts, log) ==
  IF l.top \in {"get_activities", "downloader_get_activities"} THEN Finish(l, "return", acts)
  ELSE IF l.top = "cmd_list" THEN Finish(l, "return", 0)
  ELSE IF l.top = "cmd_download"
  THEN IF acts = <<>> THEN Finish(l, "return", 0)
       ELSE Goto([l EXCEPT !.activity_ids = acts, !.i = 1], "dl_summary")
  ELSE IF acts = <<>> THEN ReturnSyncActivities(l, ZeroTally)
  ELSE LET kept == IF l.activity_types # {} THEN FilterByType(acts, l.activity_types)
                   ELSE acts
       IN  IF kept = <<>> THEN ReturnSyncActivities(l, ZeroTally)
           ELSE LoopSyncActivities([l EXCEPT !.activity_ids = kept, !.i = 1,
                                             !.results = ZeroTally], log)

Apply(c) == pc' = c.pc /\ loc' = c.loc /\ ret' = c.ret

StravaOps == {"get_activities", "get_activity_details", "get_activity_streams",
              "get_athlete", "export_activity_gpx"}

\* A response, or a RequestException.
Class(status) == IF status = "ok" THEN "ok" ELSE "error"

\* What a Strava data request leaves in the client and in the request
\* records; the credential of a request is recorded for the operations
\* invoked on the client itself.
StravaEffect(o, kind, arg) ==
  /\ access_token' = o.tok
  /\ token_expires_at' = o.exp
  /\ last' = IF o.sent /\ loc.top \in StravaOps THEN o.req ELSE last
  /\ trace' = IF o.sent THEN Append(trace, <<kind, arg, Class(o.status)>>) ELSE trace

\* Records that authenticate() returned False inside _ensure_authenticated.
Failed(l, o) == [l EXCEPT !.authfailed = @ \/ (o.raised = "AuthError")]


\* ------------------------------------------------------------------ actions
\* Time passes between two exchanges.
Tick ==
  /\ now < MaxTime
  /\ now' = now + 1
  /\ UNCHANGED <<access_token, token_expires_at, connector, authenticated,
                 sync_log, log_file, pc, loc, trace, last, ret>>

\* A caller starts an operation of a client or of the sync manager.
Begin(l, p) ==
  /\ pc = "idle"
  /\ Apply(Goto([l EXCEPT !.synced = loc.synced], p))
  /\ trace' = <<>>
  /\ last' = NoReq
  /\ UNCHANGED <<access_token, token_expires_at, now, connector, authenticated,
                 sync_log, log_file>>

\* StravaClient.authenticate(), called directly.
CallAuthenticate ==
  /\ pc = "idle"
  /\ \E a \in Authenticate(access_token, token_expires_at, now) :
       /\ access_token' = a.tok
       /\ token_expires_at' = a.exp
       /\ Apply(Finish([NoLoc EXCEPT !.top = "authenticate", !.synced = loc.synced],
                       IF a.res = "KeyError" THEN "raise" ELSE "return", a.res))
  /\ trace' = <<>>
  /\ last' = NoReq
  /\ UNCHANGED <<now, connector, authenticated, sync_log, log_file>>

CallGetActivities ==
  \E lst \in Listings(MaxList) :
    Begin([NoLoc EXCEPT !.top = "get_activities", !.listing = lst, !.page = 1],
          "ga_page")

CallGetActivityDetails ==
  \E id \in Activities :
    Begin([NoLoc EXCEPT !.top = "get_activity_details", !.activity_id = id],
          "gd_request")

CallGetActivityStreams ==
  \E id \in Activities :
    Begin([NoLoc EXCEPT !.top = "get_activity_streams", !.activity_id = id],
          "gs_request")

CallGetAthlete == Begin([NoLoc EXCEPT !.top = "get_athlete"], "at_request")

CallExportActivityGpx ==
  \E id \in Activities :
    Begin([NoLoc EXCEPT !.top = "export_activity_gpx", !.activity_id = id],
          "ex_native")

\* One iteration of the while loop of get_activities.
FetchPage ==
  /\ pc = "ga_page"
  /\ \E o \in StravaGet("list") :
       /\ StravaEffect(o, "list", loc.page)
       /\ Apply(IF o.raised # "none" THEN Propagate(Failed(loc, o), o.raised)
                ELSE IF o.status # "ok"
                THEN ReturnGetActivities(loc, OnPageError(loc.all_activities), sync_log)
                ELSE LET activities == PageOf(loc.listing, loc.page) IN
                     IF activities = <<>>
                     THEN ReturnGetActivities(loc, loc.all_activities, sync_log)
                     ELSE Goto([loc EXCEPT !.all_activities = Extend(@, activities),
                                           !.page = NextPage(@)], "ga_page"))
  /\ UNCHANGED <<now, connector, authenticated, sync_log, log_file>>

\* The body of a single-request operation: get_activity_details,
\* get_activity_streams, get_athlete.
SingleRequest(p, kind) ==
  /\ pc = p
  /\ \E o \in StravaGet(kind) :
       /\ StravaEffect(o, kind, loc.activity_id)
       /\ Apply(IF o.raised # "none" THEN Propagate(Failed(loc, o), o.raised)
                ELSE IF o.status = "ok" THEN Finish(loc, "return", "data")
                ELSE Finish(loc, "return", "None"))
  /\ UNCHANGED <<now, connector, authenticated, sync_log, log_file>>

RequestDetails == SingleRequest("gd_request", "detail")
RequestStreams == SingleRequest("gs_request", "streams")
RequestAthlete == SingleRequest("at_request", "athlete")

\* export_activity_gpx: the request to the export_gpx endpoint.
ExportNative ==
  /\ pc = "ex_native"
  /\ \E o \in StravaGet("export_gpx") :
       /\ StravaEffect(o, "export_gpx", loc.activity_id)
       /\ IF o.raised # "none" THEN Apply(Propagate(Failed(loc, o), o.raised))
          ELSE IF o.status = "ok"
          THEN \E body \in NativeBodies(loc.activity_id) :
                 Apply(ReturnExport([loc EXCEPT !.content = body], body, sync_log))
          ELSE IF FallsBack(o.status) THEN Apply(Goto(loc, "gen_detail"))
          ELSE Apply(Propagate(loc, "RequestException"))
  /\ UNCHANGED <<now, connector, authenticated, sync_log, log_file>>

\* _generate_gpx_from_streams: get_activity_details; every exception is
\* caught by the function's own handler and turned into None.
GenDetail ==
  /\ pc = "gen_detail"
  /\ \E o \in StravaGet("detail") :
       /\ StravaEffect(o, "detail", loc.activity_id)
       /\ Apply(IF o.raised # "none" THEN ReturnExport(Failed(loc, o), NoneGpx, sync_log)
                ELSE IF o.status = "ok" THEN Goto(loc, "gen_streams")
                ELSE ReturnExport(loc, NoneGpx, sync_log))
  /\ UNCHANGED <<now, connector, authenticated, sync_log, log_file>>

\* _generate_gpx_from_streams: get_activity_streams, then the synthesis.
GenStreams ==
  /\ pc = "gen_streams"
  /\ \E o \in StravaGet("streams") :
       /\ StravaEffect(o, "streams", loc.activity_id)
       /\ IF o.raised # "none"
          THEN Apply(ReturnExport(Failed(loc, o), NoneGpx, sync_log))
          ELSE IF o.status = "ok"
          THEN \E body \in StreamBodies :
                 Apply(ReturnExport(loc, IF body = "latlng"
                                         THEN SynthGpx(loc.activity_id)
                                         ELSE IF body = "latlng_empty"
                                         THEN EmptySynthGpx(loc.activity_id)
                                         ELSE NoneGpx, sync_log))
          ELSE Apply(ReturnExport(loc, NoneGpx, sync_log))
  /\ UNCHANGED <<now, connector, authenticated, sync_log, log_file>>

\* --------------------------------------------------------- specifications
\* The keys of a sync-log entry, in the order the dictionaries are built.
EntryKeys == <<"timestamp", "strava_activity_id", "strava_activity_name",
               "strava_activity_type", "komoot_tour_id", "komoot_sport", "status">>

\* The failed entry is built without the two komoot keys.
HasKey(entry, k) ==
  IF k \in {"komoot_tour_id", "komoot_sport"} THEN entry[k] # "absent" ELSE TRUE

\* json.dump of one value: an int is written as a number, a str as a string
\* and None as null.  The timestamp and the name are texts this model holds
\* as numbers; their text is carried in n.
JsonValue(k, v) ==
  IF k = "strava_activity_id" THEN [t |-> "number", s |-> "", n |-> v]
  ELSE IF k \in {"timestamp", "strava_activity_name"}
  THEN [t |-> "string", s |-> "", n |-> v]
  ELSE IF k = "komoot_tour_id" /\ v = "null" THEN [t |-> "null", s |-> "", n |-> 0]
  ELSE [t |-> "string", s |-> v, n |-> 0]

\* json.dump of one entry: an object with the members in insertion order.
JsonObject(entry) ==
  LET ks == SelectSeq(EntryKeys, LAMBDA k : HasKey(entry, k))
  IN  [i \in 1..Len(ks) |-> [key |-> ks[i], value |-> JsonValue(ks[i], entry[ks[i]])]]

\* json.dump(self.sync_log, f): the array of the objects, in log order.
JsonDump(log) == [i \in 1..Len(log) |-> JsonObject(log[i])]

\* json.load of one value.
PyValue(k, m) ==
  IF m.t = "null" THEN "null"
  ELSE IF m.t = "number" THEN m.n
  ELSE IF k \in {"timestamp", "strava_activity_name"} THEN m.n
  ELSE m.s

JsonLoadObjectNoNull(obj) ==
  [k \in Range(EntryKeys) |->
     IF \E i \in 1..Len(obj) : obj[i].key = k /\ obj[i].value.t # "null"
     THEN PyValue(k, obj[CHOOSE i \in 1..Len(obj) : obj[i].key = k].value)
     ELSE "absent"]

\* json.load of one object: a dictionary with the keys of the members.
JsonLoadObject(obj) ==
  [k \in Range(EntryKeys) |->
     IF \E i \in 1..Len(obj) : obj[i].key = k
     THEN PyValue(k, obj[CHOOSE i \in 1..Len(obj) : obj[i].key = k].value)
     ELSE "absent"]

\* json.load(f) of a file that holds an array of objects.
JsonLoad(text) == [i \in 1..Len(text) |-> JsonLoadObject(text[i])]

\* What a sync-log file holds: JSON text, text that is not JSON, bytes that
\* do not decode as text, or a file that cannot be opened.
FileKinds == {"json", "malformed", "undecodable", "unreadable"}

\* No sync-log file yet.
NoFile == [exists |-> FALSE, kind |-> "none", entries |-> <<>>]

Init ==
  /\ access_token = NoToken
  /\ token_expires_at = NoExpiry
  /\ now = 0
  /\ connector = NoConnector
  /\ authenticated = FALSE
  /\ sync_log = <<>>
  /\ log_file = NoFile
  /\ pc = "idle"
  /\ loc = NoLoc
  /\ trace = <<>>
  /\ last = NoReq
  /\ ret = NoRet

\* The Strava client used on its own.
NextClient ==
  \/ Tick
  \/ CallAuthenticate
  \/ CallGetActivities
  \/ CallGetActivityDetails
  \/ CallGetActivityStreams
  \/ CallGetAthlete
  \/ CallExportActivityGpx
  \/ FetchPage
  \/ RequestDetails
  \/ RequestStreams
  \/ RequestAthlete
  \/ ExportNative
  \/ GenDetail
  \/ GenStreams

SpecClient == Init /\ [][NextClient]_vars

\* ------------------------------------- get_activities of StravaDownloader
\* StravaDownloader.get_activities: _ensure_authenticated() once, the header
\* built from the token it leaves, then the loop.
CallDownloaderGetActivities ==
  /\ pc = "idle"
  /\ \E lst \in Listings(MaxList) :
       \E h \in EnsureAuthenticated(access_token, token_expires_at, now) :
          LET l == [NoLoc EXCEPT !.top = "downloader_get_activities", !.listing = lst,
                                 !.page = 1, !.synced = loc.synced]
          IN  /\ access_token' = h.tok
              /\ token_expires_at' = h.exp
              /\ Apply(IF h.raised # "none" THEN Propagate(l, h.raised)
                       ELSE Goto(l, "dg_page"))
  /\ trace' = <<>>
  /\ last' = NoReq
  /\ UNCHANGED <<now, connector, authenticated, sync_log, log_file>>

\* One round of the loop of StravaDownloader.get_activities: the request of
\* the page with the header built before the loop.
DownloaderFetchPage ==
  /\ pc = "dg_page"
  /\ \E st \in HttpStatus :
       /\ trace' = Append(trace, <<"list", loc.page, Class(st)>>)
       /\ Apply(IF st # "ok"
                THEN ReturnGetActivities(loc, OnPageError(loc.all_activities), sync_log)
                ELSE LET activities == PageOf(loc.listing, loc.page) IN
                     IF activities = <<>>
                     THEN ReturnGetActivities(loc, loc.all_activities, sync_log)
                     ELSE Goto([loc EXCEPT !.all_activities = Extend(@, activities),
                                           !.page = NextPage(@)], "dg_page"))
  /\ UNCHANGED <<access_token, token_expires_at, now, connector, authenticated,
                 sync_log, log_file, last>>

\* The two clients of the origin service.
NextListing ==
  \/ NextClient
  \/ CallDownloaderGetActivities
  \/ DownloaderFetchPage

\* Every request ends with a response or an exception, and the loop goes on
\* with its next round.
SpecListing ==
  /\ Init
  /\ [][NextListing]_vars
  /\ WF_vars(FetchPage)
  /\ WF_vars(DownloaderFetchPage)

\* The sport the upload is tagged with: the override when one is given.
KomootSportMapped(sport_override, activity_type) ==
  map_strava_to_komoot_sport(activity_type)

KomootSport(sport_override, activity_type) ==
  IF sport_override # "" THEN sport_override
  ELSE map_strava_to_komoot_sport(activity_type)

Overrides == {"", "hiking"}
TypeFilters == {{}, {"Run"}, {"run"}}

\* sync_activity: get_activity_details, lines 41-44.
SyncDetail ==
  /\ pc = "sa_detail"
  /\ \E o \in StravaGet("detail") :
       /\ StravaEffect(o, "detail", loc.activity_id)
       /\ Apply(IF o.raised # "none" THEN Propagate(Failed(loc, o), o.raised)
                ELSE IF o.status = "ok" THEN Goto(loc, "ex_native")
                ELSE ReturnSyncActivity(loc, FALSE, sync_log))
  /\ UNCHANGED <<now, connector, authenticated, sync_log, log_file>>

\* sync_activity: upload_gpx_data and the sync-log entry, lines 61-100.
Upload ==
  /\ pc = "sa_upload"
  /\ LET id == loc.activity_id
         sport == KomootSport(loc.sport_override, ActType(id))
     IN \E k \in KomootEnsure(connector, authenticated) :
          /\ connector' = k.conn
          /\ authenticated' = k.auth
          /\ IF k.raised
             THEN /\ Apply(Propagate(loc, "KomootAuthError"))
                  /\ UNCHANGED <<sync_log, trace>>
             ELSE \E u \in UploadOutcomes :
                    LET result == UploadResult(ActName(id), sport)
                        entry == IF u = "accepted"
                                 THEN SuccessEntry(now, id, ActName(id), ActType(id),
                                                   TourId(result), sport)
                                 ELSE FailedEntry(now, id, ActName(id), ActType(id))
                        log == LogAppend(sync_log, entry)
                        sent == u # "parse_error"
                        l == [loc EXCEPT !.uploads = IF sent THEN @ \cup {id} ELSE @]
                    IN  /\ sync_log' = log
                        /\ trace' = IF sent THEN Append(trace, <<"upload", id, u, sport>>)
                                    ELSE trace
                        /\ Apply(ReturnSyncActivity(l, u = "accepted", log))
  /\ UNCHANGED <<access_token, token_expires_at, now, log_file, last>>

\* A caller invokes sync_activity(activity_id, sport_override).
CallSyncActivity ==
  /\ Len(sync_log) + 1 <= MaxLog
  /\ \E id \in Activities, ov \in Overrides :
       Begin([NoLoc EXCEPT !.top = "sync_activity", !.activity_id = id,
                           !.sport_override = ov, !.attempted = <<id>>,
                           !.len0 = Len(sync_log)],
             "sa_detail")

\* A caller invokes sync_activities(activity_ids, sport_override).
CallSyncActivities ==
  /\ pc = "idle"
  /\ \E ids \in SeqsUpTo(Activities, NumAct), ov \in Overrides :
       /\ Len(sync_log) + Len(ids) <= MaxLog
       /\ Apply(LoopSyncActivities(
                  [NoLoc EXCEPT !.top = "sync_activities", !.activity_ids = ids,
                                !.i = 1, !.sport_override = ov,
                                !.synced = loc.synced], sync_log))
  /\ trace' = <<>>
  /\ last' = NoReq
  /\ UNCHANGED <<access_token, token_expires_at, now, connector, authenticated,
                 sync_log, log_file>>

\* A caller invokes sync_date_range(after, before, activity_types, sport_override).
CallSyncDateRange ==
  \E lst \in Listings(NumAct), types \in TypeFilters, ov \in Overrides :
       /\ Len(sync_log) + Len(lst) <= MaxLog
       /\ Begin([NoLoc EXCEPT !.top = "sync_date_range", !.listing = lst, !.page = 1,
                           !.activity_types = types, !.sport_override = ov],
             "ga_page")

\* The sync manager with its two clients.
Next ==
  \/ Tick
  \/ CallSyncActivity
  \/ CallSyncActivities
  \/ CallSyncDateRange
  \/ FetchPage
  \/ SyncDetail
  \/ ExportNative
  \/ GenDetail
  \/ GenStreams
  \/ Upload

Spec == Init /\ [][Next]_vars

\* ---------------------------------------------------------------- cmd_sync
ConfigKeys == <<"strava.client_id", "strava.client_secret", "strava.refresh_token",
                "komoot.email", "komoot.password">>
\* A configuration is the set of required keys that hold a non-empty value:
\* the complete one, and the ones that lack one key.
Configs == {Range(ConfigKeys)} \cup {Range(ConfigKeys) \ {k} : k \in Range(ConfigKeys)}

\* The arguments of a run: the --activity-ids path or the date-range path.
SyncArgs ==
  {[path |-> "ids", ids |-> ids, listing |-> <<>>, types |-> {}, ov |-> ov]
     : ids \in SeqsUpTo(Activities, NumAct) \ {<<>>}, ov \in Overrides}
  \cup {[path |-> "range", ids |-> <<>>, listing |-> lst, types |-> types, ov |-> ov]
     : lst \in Listings(NumAct), types \in TypeFilters, ov \in Overrides}

validate_strava_config(cfg) ==
  \A k \in {"strava.client_id", "strava.client_secret", "strava.refresh_token"} :
     k \in cfg

ValidateAlways(cfg) == TRUE

validate_komoot_config(cfg) ==
  \A k \in {"komoot.email", "komoot.password"} : k \in cfg

ExitCodeZero(results) == 0

\* The exit code of cmd_sync after the transfers.
ExitCode(results) == IF results.failed = 0 THEN 0 ELSE 1

\* sys.exit(main()): the status of the process is the code the command
\* returned, and 1 when an exception left main.
ExitStatus(r) == IF r.kind = "raise" THEN 1 ELSE r.val

\* A new process runs `sync`: the configuration is validated and the clients
\* are constructed (lines 88-104); --activity-ids or the date range selects
\* the transfers.
CallCmdSync ==
  /\ pc = "idle"
  /\ \E cfg \in Configs :
       IF validate_strava_config(cfg) /\ validate_komoot_config(cfg)
       THEN \E a \in SyncArgs :
              /\ Len(log_file.entries) + Len(a.ids) + Len(a.listing) <= MaxLog
              /\ Apply(Goto([NoLoc EXCEPT !.top = "cmd_sync", !.path = a.path,
                                          !.activity_ids = a.ids,
                                          !.listing = a.listing,
                                          !.activity_types = a.types,
                                          !.sport_override = a.ov,
                                          !.config = cfg],
                            "cmd_auth_strava"))
       ELSE Apply(Finish([NoLoc EXCEPT !.top = "cmd_sync", !.config = cfg],
                         "return", 1))
  /\ access_token' = NoToken
  /\ token_expires_at' = NoExpiry
  /\ connector' = NoConnector
  /\ authenticated' = FALSE
  /\ sync_log' = <<>>
  /\ trace' = <<>>
  /\ last' = NoReq
  /\ UNCHANGED <<now, log_file>>

\* Where a command goes on after strava.authenticate() returned True.
AfterStravaAuth(l) ==
  IF l.top = "cmd_sync" THEN Goto(l, "cmd_auth_komoot")
  ELSE Goto([l EXCEPT !.page = 1], "ga_page")

\* Where a command goes on after komoot.authenticate() returned True.
AfterKomootAuth(l) ==
  IF l.top = "cmd_sync" THEN Goto(l, "cmd_load") ELSE Goto(l, "ls_tours")

\* strava.authenticate() of a command (cmd_sync lines 107-109, cmd_download
\* lines 35-36, cmd_list lines 157-158); the token request is recorded.
CmdAuthStrava ==
  /\ pc = "cmd_auth_strava"
  /\ \E a \in Authenticate(access_token, token_expires_at, now) :
       /\ access_token' = a.tok
       /\ token_expires_at' = a.exp
       /\ trace' = Append(trace, <<"strava_auth", 0,
                                   IF a.res = "True" THEN "ok" ELSE "error">>)
       /\ Apply(IF a.res = "True" THEN AfterStravaAuth(loc)
                ELSE IF a.res = "False" THEN Finish(loc, "return", 1)
                ELSE Propagate(loc, "KeyError"))
  /\ UNCHANGED <<now, connector, authenticated, sync_log, log_file, last>>

\* komoot.authenticate() of a command (cmd_sync lines 111-113, cmd_list
\* lines 189-190); the connection is recorded.
CmdAuthKomoot ==
  /\ pc = "cmd_auth_komoot"
  /\ \E k \in KomootAuthenticate(connector, authenticated) :
       /\ connector' = k.conn
       /\ authenticated' = k.auth
       /\ trace' = Append(trace, <<"komoot_auth", 0, IF k.res THEN "ok" ELSE "error">>)
       /\ Apply(IF k.res THEN AfterKomootAuth(loc) ELSE Finish(loc, "return", 1))
  /\ UNCHANGED <<access_token, token_expires_at, now, sync_log, log_file, last>>

\* load_sync_log(log_path): False when the file is missing; the log is
\* assigned when json.load returns; JSONDecodeError and IOError yield False;
\* the UnicodeDecodeError of bytes that do not decode is not caught.
load_sync_log(log, file) ==
  IF ~file.exists THEN [log |-> log, kind |-> "return", val |-> FALSE]
  ELSE IF file.kind = "json"
  THEN [log |-> JsonLoad(file.entries), kind |-> "return", val |-> TRUE]
  ELSE IF file.kind = "undecodable"
  THEN [log |-> log, kind |-> "raise", val |-> FALSE]
  ELSE [log |-> log, kind |-> "return", val |-> FALSE]

\* cmd_sync: the sync manager is created and the existing log loaded (lines
\* 116-122); then the transfers start (lines 125-137).
CmdLoad ==
  /\ pc = "cmd_load"
  /\ LET ld == load_sync_log(sync_log, log_file)
         log == ld.log
         l == [loc EXCEPT !.loaded = Range(get_synced_activity_ids(log)),
                         !.nloaded = Len(log)]
     IN  /\ sync_log' = log
         /\ Apply(IF ld.kind = "raise" THEN Propagate(loc, "UnicodeDecodeError")
                  ELSE IF l.path = "ids"
                  THEN LoopSyncActivities([l EXCEPT !.i = 1], log)
                  ELSE Goto([l EXCEPT !.page = 1], "ga_page"))
  /\ UNCHANGED <<access_token, token_expires_at, now, connector, authenticated,
                 log_file, trace, last>>

\* save_sync_log: the whole log is written; or mkdir or open raises an
\* IOError and the file stays as it is; or the write raises one after open
\* has truncated the file, which then holds a part of the text.
SaveOutcomes(log, file) ==
  {[exists |-> TRUE, kind |-> "json", entries |-> JsonDump(log)],
   file,
   [exists |-> TRUE, kind |-> "malformed", entries |-> <<>>]}

\* cmd_sync: save_sync_log and the exit code, lines 140-142.
CmdSave ==
  /\ pc = "cmd_save"
  /\ \E f \in SaveOutcomes(sync_log, log_file) : log_file' = f
  /\ Apply(Finish(loc, "return", ExitCode(loc.results)))
  /\ UNCHANGED <<access_token, token_expires_at, now, connector, authenticated,
                 sync_log, trace, last>>

NextCli ==
  \/ Tick
  \/ CallCmdSync
  \/ CmdAuthStrava
  \/ CmdAuthKomoot
  \/ CmdLoad
  \/ FetchPage
  \/ SyncDetail
  \/ ExportNative
  \/ GenDetail
  \/ GenStreams
  \/ Upload
  \/ CmdSave

SpecCli == Init /\ [][NextCli]_vars

\* ------------------------------------------------- cmd_download and cmd_list
\* The validation a command runs before it constructs a client.
ConfigValid(cmd, source, cfg) ==
  IF cmd = "cmd_download" \/ (cmd = "cmd_list" /\ source = "strava")
  THEN validate_strava_config(cfg)
  ELSE validate_komoot_config(cfg)

\* A new process runs a command other than sync: the configuration of the
\* vendor it uses is validated and the client constructed.
StartCommand(l, first) ==
  /\ pc = "idle"
  /\ Apply(IF ConfigValid(l.top, l.source, l.config) THEN Goto(l, first)
           ELSE Finish(l, "return", 1))
  /\ access_token' = NoToken
  /\ token_expires_at' = NoExpiry
  /\ connector' = NoConnector
  /\ authenticated' = FALSE
  /\ sync_log' = <<>>
  /\ trace' = <<>>
  /\ last' = NoReq
  /\ UNCHANGED <<now, log_file>>

\* `download [--export-gpx]`, lines 25-33.
CallCmdDownload ==
  \E cfg \in Configs, lst \in Listings(NumAct), x \in BOOLEAN :
     StartCommand([NoLoc EXCEPT !.top = "cmd_download", !.config = cfg,
                                !.source = "strava",
                                !.listing = IF validate_strava_config(cfg) THEN lst ELSE <<>>,
                                !.export_gpx = validate_strava_config(cfg) /\ x],
                  "cmd_auth_strava")

\* `list strava` and `list komoot`, lines 147-155 and 180-187.
CallCmdList ==
  \E cfg \in Configs, src \in {"strava", "komoot"}, lst \in Listings(NumAct) :
     StartCommand([NoLoc EXCEPT !.top = "cmd_list", !.config = cfg, !.source = src,
                                !.listing = IF src = "strava" /\ validate_strava_config(cfg)
                                            THEN lst ELSE <<>>],
                  IF src = "strava" THEN "cmd_auth_strava" ELSE "cmd_auth_komoot")

\* The outcomes of a write to the output directory.
WriteOutcomes == {"ok", "io_error"}

\* cmd_download: the output directory and the summary file, then the gpx
\* directory; an IOError of these is not caught (lines 51-64).
DlSummary ==
  /\ pc = "dl_summary"
  /\ \E w \in WriteOutcomes, d \in WriteOutcomes :
       Apply(IF w = "io_error" THEN Propagate(loc, "IOError")
             ELSE IF ~loc.export_gpx THEN Finish(loc, "return", 0)
             ELSE IF d = "io_error" THEN Propagate(loc, "IOError")
             ELSE LoopDownload(loc))
  /\ UNCHANGED <<access_token, token_expires_at, now, connector, authenticated,
                 sync_log, log_file, trace, last>>

\* save_activity_gpx: the track is written, or the IOError is reported
\* (strava_client.py lines 282-290); cmd_download goes on either way.
DlWrite ==
  /\ pc = "dl_write"
  /\ \E w \in WriteOutcomes :
       Apply(LoopDownload([loc EXCEPT !.i = NextIndex(@),
                                      !.uploads = IF w = "ok" THEN @ \cup {loc.activity_id}
                                                  ELSE @]))
  /\ UNCHANGED <<access_token, token_expires_at, now, connector, authenticated,
                 sync_log, log_file, trace, last>>

\* cmd_list: komoot.get_tours() and the listing, lines 194-217.
LsTours ==
  /\ pc = "ls_tours"
  /\ \E k \in KomootEnsure(connector, authenticated) :
       /\ connector' = k.conn
       /\ authenticated' = k.auth
       /\ IF k.raised
          THEN Apply(Propagate(loc, "KomootAuthError")) /\ UNCHANGED trace
          ELSE \E st \in CallOutcomes :
                 /\ trace' = Append(trace, <<"get_tours", 0, st>>)
                 /\ Apply(Finish(loc, "return", 0))
  /\ UNCHANGED <<access_token, token_expires_at, now, sync_log, log_file, last>>

\* The log files a process can find when it starts: none, one that an
\* earlier run saved, one that an interrupted write left, and a saved one
\* that was damaged since (its text holds the entry but does not parse).
RunFiles ==
  LET saved == JsonDump(<<SuccessEntry(0, 1, ActName(1), ActType(1),
                                       TourId(UploadResult(ActName(1), KomootSport("", ActType(1)))),
                                       KomootSport("", ActType(1)))>>)
  IN  {NoFile,
       [exists |-> TRUE, kind |-> "json", entries |-> saved],
       [exists |-> TRUE, kind |-> "malformed", entries |-> <<>>],
       [exists |-> TRUE, kind |-> "malformed", entries |-> saved]}

\* The state a process starts in.
InitRun ==
  /\ access_token = NoToken
  /\ token_expires_at = NoExpiry
  /\ now = 0
  /\ connector = NoConnector
  /\ authenticated = FALSE
  /\ sync_log = <<>>
  /\ log_file \in RunFiles
  /\ pc = "idle"
  /\ loc = NoLoc
  /\ trace = <<>>
  /\ last = NoReq
  /\ ret = NoRet

\* No command has run in this process: main() runs one command and exits.
Fresh == loc.top = NoLoc.top

\* One run of the CLI with a command that uses a vendor.
NextCommands ==
  \/ Tick
  \/ Fresh /\ CallCmdSync
  \/ Fresh /\ CallCmdDownload
  \/ Fresh /\ CallCmdList
  \/ CmdAuthStrava
  \/ CmdAuthKomoot
  \/ CmdLoad
  \/ FetchPage
  \/ SyncDetail
  \/ ExportNative
  \/ GenDetail
  \/ GenStreams
  \/ Upload
  \/ CmdSave
  \/ DlSummary
  \/ DlWrite
  \/ LsTours

SpecCommands == InitRun /\ [][NextCommands]_vars

\* ------------------------------------------------- track synthesis in detail
\* _generate_gpx_from_streams on concrete stream arrays.  An optional value
\* is a sequence of length at most one: None is the empty one.
None == <<>>
Some(v) == <<v>>
NoTrack == None

Positions == {<<1, 2>>, <<3, 4>>}
TimeOffsets == {0, 10}
Altitudes == {100}
\* The UTC offset of the zone the program runs in, in seconds.
TzOffsets == {0, 3600}

\* A stream of a stream set: the key is missing, or it holds a data array.
Arrays(vals) == {None} \cup {Some(a) : a \in SeqsUpTo(vals, MaxSamples)}

\* response.json() of the streams request with key_by_type, or None when
\* get_activity_streams failed.
StreamSets ==
  {None} \cup
  {Some(d) : d \in [latlng : Arrays(Positions), time : Arrays(TimeOffsets),
                    altitude : Arrays(Altitudes)]}

\* The detail of the activity: its start_date as seconds since the epoch.
Details == {None, Some([name |-> 1, type |-> "Ride", start_date |-> 0])}

\* `not streams`: None or the empty dictionary.
NoStreams(streams) ==
  \/ streams = None
  \/ (streams[1].latlng = None /\ streams[1].time = None
        /\ streams[1].altitude = None)

\* streams.get(key, {}).get('data', [])
StreamData(streams, key) ==
  IF streams[1][key] = None THEN <<>> ELSE streams[1][key][1]

\* datetime.fromtimestamp(t): the naive wall-clock reading of the local zone.
FromTimestamp(t, tz) == t + tz

\* gpx.to_xml() writes a naive datetime as it reads, with the suffix Z: the
\* instant the written timestamp denotes.
FormatTime(wall) == wall

\* One track point of the loop at lines 241-259 (i counts from 1 here).
TrackPoint(activity, streams, tz, i) ==
  LET latlng_data == streams[1].latlng[1]
      time_data == StreamData(streams, "time")
      altitude_data == StreamData(streams, "altitude")
  IN  [latitude |-> latlng_data[i][1],
       longitude |-> latlng_data[i][2],
       elevation |-> IF i <= Len(altitude_data) THEN Some(altitude_data[i]) ELSE None,
       time |-> IF i <= Len(time_data)
                THEN Some(FormatTime(FromTimestamp(activity[1].start_date
                                                     + time_data[i], tz)))
                ELSE None]

generate_gpx_from_streams(activity, streams, tz) ==
  IF activity = None THEN NoTrack
  ELSE IF NoStreams(streams) THEN NoTrack
  ELSE IF streams[1].latlng = None THEN NoTrack
  ELSE Some([tracks |-> << [name |-> activity[1].name, type |-> activity[1].type,
                            segments |-> << [points |->
                               [i \in 1..Len(streams[1].latlng[1]) |->
                                  TrackPoint(activity, streams, tz, i)]] >>] >>])

\* The synthesis applied to every detail, stream set and zone.
InitGpx ==
  /\ access_token = NoToken
  /\ token_expires_at = NoExpiry
  /\ now = 0
  /\ connector = NoConnector
  /\ authenticated = FALSE
  /\ sync_log = <<>>
  /\ log_file = NoFile
  /\ pc = "gen_build"
  /\ loc \in [top : {"_generate_gpx_from_streams"}, activity : Details,
              streams : StreamSets, tz : TzOffsets]
  /\ trace = <<>>
  /\ last = NoReq
  /\ ret = NoRet

GenerateGpx ==
  /\ pc = "gen_build"
  /\ Apply(Finish(loc, "return",
                  generate_gpx_from_streams(loc.activity, loc.streams, loc.tz)))
  /\ UNCHANGED <<access_token, token_expires_at, now, connector, authenticated,
                 sync_log, log_file, trace, last>>

SpecGpx == InitGpx /\ [][GenerateGpx]_vars

\* ------------------------------------------------ the Komoot client alone
\* The operations of the Komoot client that need a session.
KomootOps == {"upload_gpx_data", "get_tours", "get_tour_details", "delete_tour"}

TrackBytes == {NativeGpx(1), SynthGpx(1)}
TourNames == {1, 2}
Sports == {"touringbicycle", "hiking"}
TourIds == {1, 2}

UploadReturnAlways(u, name, sport) ==
  IF u \in {"accepted", "rejected"} THEN Some(UploadResult(name, sport)) ELSE None

\* What upload_gpx_data returns after the session check (lines 159-180): the
\* result dictionary `if success`, None otherwise and on every exception.
UploadReturn(u, name, sport) ==
  IF u = "accepted" THEN Some(UploadResult(name, sport)) ELSE None


\* What get_tours, get_tour_details and delete_tour return.
KomootReturn(op, arg, st) ==
  CASE op = "get_tours" ->
         IF st = "ok" THEN Some(<<1>>) ELSE IF st = "empty" THEN Some(<<>>) ELSE None
    [] op = "get_tour_details" -> IF st = "ok" THEN Some(arg) ELSE None
    [] op = "delete_tour" -> IF st = "error" THEN Some(FALSE) ELSE Some(TRUE)

\* The locals of a call on the Komoot client.
KomootLoc(op, args, called, outcome) ==
  [top |-> op, args |-> args, called |-> called, outcome |-> outcome]

\* authenticate() called on the client.
KomootCallAuthenticate ==
  /\ pc = "idle"
  /\ \E a \in KomootAuthenticate(connector, authenticated) :
       /\ connector' = a.conn
       /\ authenticated' = a.auth
       /\ Apply(Finish(KomootLoc("komoot.authenticate", <<>>, TRUE, "none"),
                       "return", a.res))
  /\ trace' = <<>>
  /\ UNCHANGED <<access_token, token_expires_at, now, sync_log, log_file, last>>

\* An operation that needs a session: _ensure_authenticated() outside the
\* try block, then the connector call inside it.
KomootCall(op, args, outcomes) ==
  /\ pc = "idle"
  /\ \E k \in KomootEnsure(connector, authenticated) :
       /\ connector' = k.conn
       /\ authenticated' = k.auth
       /\ IF k.raised
          THEN /\ Apply(Propagate(KomootLoc(op, args, k.called, "auth_failed"),
                                  "KomootAuthError"))
               /\ trace' = <<>>
          ELSE \E u \in outcomes :
                 /\ Apply(Finish(KomootLoc(op, args, k.called, u), "return",
                                 IF op = "upload_gpx_data"
                                 THEN UploadReturn(u, args[2], args[3])
                                 ELSE KomootReturn(op, args[1], u)))
                 /\ trace' = IF u = "parse_error" THEN <<>>
                             ELSE << <<op, args[1], u>> >>
  /\ UNCHANGED <<access_token, token_expires_at, now, sync_log, log_file, last>>

\* upload_gpx_data(gpx_data, name, sport)
KomootUploadGpxData ==
  \E g \in TrackBytes, name \in TourNames, sport \in Sports :
     KomootCall("upload_gpx_data", <<g, name, sport>>, UploadOutcomes)

\* get_tours()
KomootGetTours == KomootCall("get_tours", <<0>>, CallOutcomes)

\* get_tour_details(tour_id)
KomootGetTourDetails ==
  \E id \in TourIds : KomootCall("get_tour_details", <<id>>, CallOutcomes \ {"empty"})

\* delete_tour(tour_id)
KomootDeleteTour ==
  \E id \in TourIds : KomootCall("delete_tour", <<id>>, CallOutcomes \ {"empty"})

NextKomoot ==
  \/ KomootCallAuthenticate
  \/ KomootUploadGpxData
  \/ KomootGetTours
  \/ KomootGetTourDetails
  \/ KomootDeleteTour

SpecKomoot == Init /\ [][NextKomoot]_vars

\* ------------------------------------------------- the sport mapping alone
\* The type codes map_strava_to_komoot_sport is applied to: the keys of its
\* table, spellings that differ from a key in letter case or by a blank, and
\* codes the table does not know.
TypeCodes ==
  {"Ride", "VirtualRide", "EBikeRide", "MountainBikeRide", "GravelRide", "Run",
   "TrailRun", "Walk", "Hike", "RoadBike",
   "ride", "RIDE", "hike", "roadbike", "run", "Run ", "", "UnknownXYZ", "Swim"}

MapRoadBikeAsRide(strava_type) ==
  map_strava_to_komoot_sport(IF strava_type = "RoadBike" THEN "Ride" ELSE strava_type)

\* KomootClient.map_strava_to_komoot_sport(strava_type), as its callers see it.
MapSport(strava_type) == map_strava_to_komoot_sport(strava_type)

\* A caller applies the mapping to a type code; the result of the call
\* before it stays in ret until this one returns.
CallMapSport ==
  /\ pc = "idle"
  /\ \E t \in TypeCodes :
       /\ pc' = "map"
       /\ loc' = [top |-> "map_strava_to_komoot_sport", strava_type |-> t]
  /\ UNCHANGED <<access_token, token_expires_at, now, connector, authenticated,
                 sync_log, log_file, trace, last, ret>>

ReturnMapSport ==
  /\ pc = "map"
  /\ Apply(Finish(loc, "return", <<loc.strava_type, MapSport(loc.strava_type)>>))
  /\ UNCHANGED <<access_token, token_expires_at, now, connector, authenticated,
                 sync_log, log_file, trace, last>>

NextMap == CallMapSport \/ ReturnMapSport

SpecMap == Init /\ [][NextMap]_vars

\* ----------------------------------------------- the sync log and its file
LedgerOps == {"append", "save_sync_log", "load_sync_log", "SyncManager", "file",
              "get_synced_activity_ids", "is_activity_synced"}

\* The entries sync_activity appends: an accepted or a failed upload of an
\* activity, with or without a sport override.
LedgerEntries ==
  {SuccessEntry(now, id, ActName(id), ActType(id),
                TourId(UploadResult(ActName(id), KomootSport(ov, ActType(id)))),
                KomootSport(ov, ActType(id))) : id \in Activities, ov \in Overrides}
  \cup {FailedEntry(now, id, ActName(id), ActType(id)) : id \in Activities}

\* The log the last save wrote to the file that is still on disk, if any.
Saved == IF loc.top \in LedgerOps THEN loc.saved ELSE None

\* The locals and the history of a call on the sync log.
LedgerLoc(op, before, file, saved) ==
  [top |-> op, before |-> before, file |-> file, saved |-> saved]

\* A transfer ends with an upload and appends its entry (lines 77, 92).
AppendEntry ==
  /\ pc = "idle"
  /\ Len(sync_log) < MaxLog
  /\ \E e \in LedgerEntries :
       /\ sync_log' = LogAppend(sync_log, e)
       /\ Apply(Finish(LedgerLoc("append", sync_log, log_file, Saved),
                       "return", e.status = "success"))
  /\ UNCHANGED <<access_token, token_expires_at, now, connector, authenticated,
                 log_file, trace, last>>

\* save_sync_log(output_path)
CallSaveSyncLog ==
  /\ pc = "idle"
  /\ \E f \in SaveOutcomes(sync_log, log_file) :
       /\ log_file' = f
       /\ Apply(Finish(LedgerLoc("save_sync_log", sync_log, log_file,
                                 IF f = log_file THEN Saved
                                 ELSE IF f.kind = "json" THEN Some(sync_log)
                                 ELSE None),
                       "return", "None"))
  /\ UNCHANGED <<access_token, token_expires_at, now, connector, authenticated,
                 sync_log, trace, last>>

\* load_sync_log(log_path)
CallLoadSyncLog ==
  /\ pc = "idle"
  /\ LET ld == load_sync_log(sync_log, log_file) IN
       /\ sync_log' = ld.log
       /\ Apply(Finish(LedgerLoc("load_sync_log", sync_log, log_file, Saved),
                       ld.kind, ld.val))
  /\ UNCHANGED <<access_token, token_expires_at, now, connector, authenticated,
                 log_file, trace, last>>

\* SyncManager(strava, komoot): a fresh manager starts with an empty log.
NewSyncManager ==
  /\ pc = "idle"
  /\ sync_log' = <<>>
  /\ Apply(Finish(LedgerLoc("SyncManager", sync_log, log_file, Saved),
                  "return", "None"))
  /\ UNCHANGED <<access_token, token_expires_at, now, connector, authenticated,
                 log_file, trace, last>>

\* Something else removes the file or leaves a file the program did not
\* write.
FileChanges ==
  /\ pc = "idle"
  /\ \E f \in {NoFile} \cup {[exists |-> TRUE, kind |-> k, entries |-> <<>>]
                               : k \in FileKinds \ {"json"}} :
       /\ f # log_file
       /\ log_file' = f
  /\ Apply(Finish(LedgerLoc("file", sync_log, log_file, None), "return", "None"))
  /\ UNCHANGED <<access_token, token_expires_at, now, connector, authenticated,
                 sync_log, trace, last>>

\* get_synced_activity_ids() called on the manager.
CallGetSyncedActivityIds ==
  /\ pc = "idle"
  /\ Apply(Finish(LedgerLoc("get_synced_activity_ids", sync_log, log_file, Saved),
                  "return", get_synced_activity_ids(sync_log)))
  /\ UNCHANGED <<access_token, token_expires_at, now, connector, authenticated,
                 sync_log, log_file, trace, last>>

\* is_activity_synced(activity_id) called on the manager.
CallIsActivitySynced ==
  /\ pc = "idle"
  /\ \E id \in Activities :
       Apply(Finish(LedgerLoc("is_activity_synced", sync_log, log_file, Saved),
                    "return", <<id, is_activity_synced(sync_log, id)>>))
  /\ UNCHANGED <<access_token, token_expires_at, now, connector, authenticated,
                 sync_log, log_file, trace, last>>

NextLedger ==
  \/ AppendEntry
  \/ CallSaveSyncLog
  \/ CallLoadSyncLog
  \/ NewSyncManager
  \/ FileChanges
  \/ CallGetSyncedActivityIds
  \/ CallIsActivitySynced

SpecLedger == Init /\ [][NextLedger]_vars

\* ------------------------------------------------------------------ claims
\* The concatenation of the pages 1..k of a listing.
RECURSIVE PagesConcat(_, _)
PagesConcat(listing, k) ==
  IF k = 0 THEN <<>> ELSE PagesConcat(listing, k - 1) \o PageOf(listing, k)

FirstEmptyPage(listing) ==
  CHOOSE k \in 1..(Len(listing) + 1) :
    PageOf(listing, k) = <<>> /\ \A j \in 1..(k - 1) : PageOf(listing, j) # <<>>

InGetActivities == loc.top = "get_activities" /\ pc \in {"ga_page", "idle"}
EndedGetActivities == loc.top = "get_activities" /\ pc = "idle"
AllOk == \A i \in 1..Len(trace) : trace[i][3] = "ok"

\* C6: get_activities requests the pages 1, 2, 3, ... in order, each once;
\* when no request fails it stops with the request answered by the first
\* empty page and returns the concatenation of the pages before it, in
\* order and without a duplicate.
C6_Pagination ==
  /\ InGetActivities =>
       \A i \in 1..Len(trace) : trace[i][1] = "list" /\ trace[i][2] = i
  /\ (EndedGetActivities /\ AllOk /\ ret.kind = "return") =>
       /\ Len(trace) = FirstEmptyPage(loc.listing)
       /\ ret.val = PagesConcat(loc.listing, Len(trace) - 1)
       /\ ret.val = loc.listing
       /\ NoDup(ret.val)

C6_Witness ==
  /\ EndedGetActivities /\ AllOk /\ ret.kind = "return"
  /\ Len(trace) = 3
  /\ Len(ret.val) = 3

PageFetchFailed ==
  \/ loc.authfailed /\ loc.page > 1
  \/ (Len(trace) > 0 /\ trace[Len(trace)][3] # "ok")

\* C7 as stated: whatever makes the fetch of page k fail, a request failure
\* or a token that expired between two pages and cannot be refreshed,
\* get_activities returns the activities of the pages 1..k-1 as a normal
\* result.
C7_Original ==
  (EndedGetActivities /\ PageFetchFailed) =>
     /\ ret.kind = "return"
     /\ ret.val = PagesConcat(loc.listing, loc.page - 1)

\* C7 as amended: a request failure (error status or network error) on page
\* k ends pagination and get_activities returns the activities of the pages
\* 1..k-1 as a normal result; a failed re-authentication before a page
\* request makes get_activities raise, and that page request is not sent.
C7_Amended ==
  /\ (EndedGetActivities /\ Len(trace) > 0 /\ trace[Len(trace)][3] # "ok") =>
       /\ ret.kind = "return"
       /\ Len(trace) = loc.page
       /\ ret.val = PagesConcat(loc.listing, loc.page - 1)
  /\ (EndedGetActivities /\ loc.authfailed) =>
       /\ ret.kind = "raise" /\ ret.val = "AuthError"
       /\ Len(trace) = loc.page - 1
       /\ AllOk

C7_Witness ==
  /\ EndedGetActivities
  /\ Len(trace) = 2 /\ trace[2][3] = "error" /\ last.status = "network_error"
  /\ ret.kind = "return" /\ Len(ret.val) = PerPage

C9_Original ==
  (pc = "idle" /\ ret.op \in StravaOps /\ loc.authfailed) => ret.kind = "raise"

InExport == loc.top = "export_activity_gpx"

\* C10: export_activity_gpx sends the export_gpx request first; when that
\* request succeeds no other request is sent and the content of the response
\* is returned as it is; the detail and streams requests of the synthesis
\* are sent only after the export_gpx request failed, and every failed
\* export_gpx request, whatever the failure, leads to the synthesis (which
\* is about to send its detail request, or has ended absent because the
\* header of that request could not be built).
C10_ExportOrder ==
  InExport =>
    /\ \A i \in 1..Len(trace) :
         IF i = 1 THEN trace[i][1] = "export_gpx"
         ELSE trace[i][1] \in {"detail", "streams"} /\ trace[1][3] # "ok"
    /\ (Len(trace) >= 1 /\ trace[1][3] = "ok") =>
         /\ Len(trace) = 1 /\ pc = "idle"
         /\ ret.kind = "return" /\ ret.val = loc.content
         /\ ret.val \in NativeBodies(loc.activity_id)
    /\ (Len(trace) = 1 /\ trace[1][3] # "ok") =>
         \/ pc = "gen_detail"
         \/ pc = "idle" /\ ret.kind = "return" /\ ret.val = NoneGpx
    /\ (pc = "idle" /\ ret.kind = "return" /\ ret.val = SynthGpx(loc.activity_id)) =>
         Len(trace) = 3 /\ trace[2][1] = "detail" /\ trace[3][1] = "streams"

C10_Witness ==
  /\ InExport /\ pc = "idle"
  /\ Len(trace) = 3 /\ trace[1][3] = "error"
  /\ ret.val = SynthGpx(loc.activity_id)

\* ------------------------------------------------------- sync manager claims
IsPrefix(s, t) == Len(s) <= Len(t) /\ \A i \in 1..Len(s) : s[i] = t[i]

\* C1 as stated: every invocation of sync_activity that has returned left
\* the sync log exactly one entry longer than it found it.
C1_Original ==
  loc.done.result # "none" => loc.done.after = loc.done.before + 1

\* C2 as stated: in a run of the sync command no upload is issued for an
\* activity id that has a success entry in the sync log the run loaded.
C2_Original ==
  loc.top = "cmd_sync" => loc.uploads \cap loc.loaded = {}

\* C3: every activity id for which sync_activity has returned True on this
\* sync manager is reported as synced, after any number of later transfer
\* calls, failed re-attempts for the same id included.
C3_SyncedSticks ==
  \A id \in loc.synced : is_activity_synced(sync_log, id)

C3_Witness ==
  \E i, j \in 1..Len(sync_log) :
    /\ i < j
    /\ sync_log[i].strava_activity_id = sync_log[j].strava_activity_id
    /\ sync_log[i].status = "success" /\ sync_log[j].status = "failed"
    /\ sync_log[i].strava_activity_id \in loc.synced
    /\ pc = "idle"

\* C4: a step of a transfer operation leaves every entry of the sync log in
\* place and unchanged: the log before the step is a prefix of the log after
\* it, and a step adds at most one entry.
C4_AppendOnly ==
  [][IsPrefix(sync_log, sync_log') /\ Len(sync_log') <= Len(sync_log) + 1]_vars

C4_Witness ==
  /\ Len(sync_log) = 2
  /\ sync_log[1].strava_activity_id = sync_log[2].strava_activity_id
  /\ sync_log[1].status = "failed" /\ sync_log[2].status = "success"
  /\ loc.top = "sync_activities"

\* C5 as stated: every call of sync_activities, an authentication failure
\* inside a client included, ends by returning a tally with success + failed
\* = number of ids, having attempted every id in order.
C5_Original ==
  (pc = "idle" /\ ret.op = "sync_activities"
     /\ ~(ret.kind = "raise" /\ ret.val = "KeyError")) =>
     /\ ret.kind = "return"
     /\ ret.val.success + ret.val.failed = Len(loc.activity_ids)
     /\ loc.attempted = loc.activity_ids

\* ---------------------------------------------------- track synthesis claims
Synthesized == loc.top = "_generate_gpx_from_streams" /\ pc = "idle"
PointsOf(gpx) == gpx[1].tracks[1].segments[1].points

\* C11 as stated: the synthesis returns absence when the stream set is
\* absent, has no latlng key, or holds a latlng stream of zero samples, and
\* every track it returns has at least one point.
C11_Original ==
  Synthesized =>
    /\ (loc.streams = None \/ loc.streams[1].latlng = None
          \/ loc.streams[1].latlng = Some(<<>>)) => ret.val = NoTrack
    /\ ret.val # NoTrack => Len(PointsOf(ret.val)) >= 1

\* C12 as stated: the synthesized track has one track with one segment of
\* len(latlng) points in sample order; point i has the position latlng[i],
\* the elevation altitude[i] when that sample exists and none otherwise, and
\* the timestamp start + time[i] when that sample exists and none otherwise.
C12_Original ==
  (Synthesized /\ ret.val # NoTrack) =>
    LET latlng == loc.streams[1].latlng[1]
        time == StreamData(loc.streams, "time")
        altitude == StreamData(loc.streams, "altitude")
        points == PointsOf(ret.val)
    IN  /\ Len(ret.val[1].tracks) = 1
        /\ Len(ret.val[1].tracks[1].segments) = 1
        /\ Len(points) = Len(latlng)
        /\ \A i \in 1..Len(latlng) :
             /\ <<points[i].latitude, points[i].longitude>> = latlng[i]
             /\ points[i].elevation =
                  (IF i <= Len(altitude) THEN Some(altitude[i]) ELSE None)
             /\ points[i].time =
                  (IF i <= Len(time)
                   THEN Some(loc.activity[1].start_date + time[i]) ELSE None)

\* ------------------------------------------------------ Komoot client claims
InKomoot == loc.top \in KomootOps \cup {"komoot.authenticate"}

\* C13 as stated: an operation is sent to the destination service only on a
\* connector whose authenticate() returned True, and after an authenticate()
\* that returned False the client has no session, so that the next
\* operation authenticates again.
C13_Original ==
  InKomoot =>
    /\ trace # <<>> => connector = "verified"
    /\ (ret.op = "komoot.authenticate" /\ ret.val = FALSE) =>
         KomootNeedsAuth(connector, authenticated)

UploadEnded == loc.top = "upload_gpx_data" /\ pc = "idle"

SportTable ==
  {<<"Ride", "touringbicycle">>, <<"VirtualRide", "touringbicycle">>,
   <<"RoadBike", "racebike">>, <<"EBikeRide", "e_touringbicycle">>,
   <<"MountainBikeRide", "mtb">>, <<"GravelRide", "mtb">>,
   <<"Run", "jogging">>, <<"TrailRun", "jogging">>,
   <<"Walk", "hiking">>, <<"Hike", "hiking">>}

\* C15: map_strava_to_komoot_sport returns, for every type code, the
\* destination code the static table pairs with that exact spelling, and
\* touringbicycle for every code the table does not hold, a code that
\* differs from a key only in letter case included.
C15_MapCategory ==
  (loc.top = "map_strava_to_komoot_sport" /\ pc = "idle") =>
    LET t == loc.strava_type IN
    /\ ret.kind = "return" /\ ret.val[1] = t
    /\ \A p \in SportTable : p[1] = t => ret.val[2] = p[2]
    /\ (\A p \in SportTable : p[1] # t) => ret.val[2] = "touringbicycle"

C15_Witness ==
  /\ loc.top = "map_strava_to_komoot_sport" /\ pc = "idle"
  /\ loc.strava_type = "hike" /\ ret.val[2] = "touringbicycle"

\* ------------------------------------------------- date-range transfer claim
InDateRange == loc.top = "sync_date_range"

\* The activities of a listing whose type is one of the codes, in order.
Matching(acts, types) == SelectSeq(acts, LAMBDA a : \E t \in types : ActType(a) = t)

\* The activities sync_date_range hands on: all of them without a filter.
Selected(acts, types) == IF types = {} THEN acts ELSE Matching(acts, types)

\* C16: sync_date_range attempts the activities get_activities returned
\* whose type equals, letter for letter, one of the codes of the filter, in
\* listing order and no other activity: while it runs the attempted ids are
\* a prefix of them, and all of them when it returns its tally; every
\* request about an activity and every upload is for an attempted id; when
\* the listing is empty or nothing matches, it returns {success: 0,
\* failed: 0} and has sent nothing but listing requests.
C16_DateRangeFilter ==
  InDateRange =>
    LET sel == Selected(loc.all_activities, loc.activity_types) IN
    /\ pc = "ga_page" => loc.attempted = <<>>
    /\ pc # "ga_page" => IsPrefix(loc.attempted, sel)
    /\ \A i \in 1..Len(trace) :
         trace[i][1] # "list" =>
           \E j \in 1..Len(loc.attempted) : loc.attempted[j] = trace[i][2]
    /\ (pc = "idle" /\ ret.kind = "return") =>
         /\ loc.attempted = sel
         /\ ret.val.success + ret.val.failed = Len(sel)
         /\ sel = <<>> =>
              /\ ret.val = [success |-> 0, failed |-> 0]
              /\ \A i \in 1..Len(trace) : trace[i][1] = "list"

C16_Witness ==
  /\ InDateRange /\ pc = "idle" /\ ret.kind = "return"
  /\ loc.activity_types = {"Run"}
  /\ Len(loc.all_activities) = 2
  /\ loc.attempted = <<2>>
  /\ \E i \in 1..Len(trace) : trace[i][1] = "upload"

\* ---------------------------------------------------------- sync-log claims
\* C17 as stated: every entry of the sync log has the status success or
\* failed; a success entry holds the id of the tour the destination
\* created, a value that is present and not null; a failed entry holds no
\* tour id.
C17_Original ==
  \A i \in 1..Len(sync_log) :
    /\ sync_log[i].status \in {"success", "failed"}
    /\ sync_log[i].status = "success" =>
         sync_log[i].komoot_tour_id \notin {"absent", "null"}
    /\ sync_log[i].status = "failed" => sync_log[i].komoot_tour_id = "absent"

\* The sport of a transfer: the override when one is given, the table's
\* value for the type of the fetched activity otherwise.
Resolved(override, type) ==
  IF override # ""
  THEN override
  ELSE IF \E p \in SportTable : p[1] = type
       THEN (CHOOSE p \in SportTable : p[1] = type)[2]
       ELSE "touringbicycle"

InTransfer == loc.top \in {"sync_activity", "sync_activities", "sync_date_range"}

LoadEnded == loc.top = "load_sync_log" /\ pc = "idle"

\* C19 as stated: a load_sync_log of a missing file or of a file whose
\* content is malformed returns False without raising and leaves the log in
\* memory as it was; the log is replaced, by the whole content of the file,
\* only when the load returns True.
C19_Original ==
  LoadEnded =>
    /\ (~loc.file.exists \/ loc.file.kind # "json") =>
         (ret.kind = "return" /\ ret.val = FALSE /\ sync_log = loc.before)
    /\ (loc.file.exists /\ loc.file.kind = "json") =>
         (ret.kind = "return" /\ ret.val = TRUE /\ Len(sync_log) = Len(loc.file.entries))

\* C20: when save_sync_log has written the log and the file is still as it
\* wrote it, load_sync_log returns True and yields the sequence that was
\* saved: the same entries in the same order, every entry with the same
\* keys and the same values, a key that was missing still missing and a
\* null still null; it does so on a fresh manager as on any other.
C20_RoundTrip ==
  (LoadEnded /\ loc.saved # None) =>
    /\ ret.kind = "return" /\ ret.val = TRUE
    /\ sync_log = loc.saved[1]
    /\ Len(sync_log) = Len(loc.saved[1])
    /\ \A i \in 1..Len(sync_log) :
         \A k \in Range(EntryKeys) : sync_log[i][k] = loc.saved[1][i][k]

C20_Witness ==
  /\ LoadEnded /\ loc.saved # None /\ loc.before = <<>>
  /\ Len(sync_log) = 2
  /\ sync_log[1].strava_activity_id = sync_log[2].strava_activity_id
  /\ sync_log[1].status = "failed" /\ sync_log[2].status = "success"
  /\ sync_log[1].komoot_tour_id = "absent" /\ sync_log[2].komoot_tour_id = "null"

\* The ids that have a success entry in the log.
SuccessIds(log) ==
  {log[i].strava_activity_id : i \in {j \in 1..Len(log) : log[j].status = "success"}}

\* C21 as stated: get_synced_activity_ids returns the ids that have at
\* least one success entry, every id once however many success entries it
\* has, and no id that has only failed entries; is_activity_synced(id) is
\* true exactly for the ids of that collection.
C21_Original ==
  /\ (loc.top = "get_synced_activity_ids" /\ pc = "idle") =>
       /\ Range(ret.val) = SuccessIds(sync_log)
       /\ NoDup(ret.val)
  /\ (loc.top = "is_activity_synced" /\ pc = "idle") =>
       (ret.val[2] <=> ret.val[1] \in SuccessIds(sync_log))

\* -------------------------------------------------------- command claims
SyncEnded == loc.top = "cmd_sync" /\ pc = "idle"

\* The required keys of the two vendors, as the configuration file names them.
RequiredKeys ==
  {"strava.client_id", "strava.client_secret", "strava.refresh_token",
   "komoot.email", "komoot.password"}

\* C22: when the sync command ends, its exit status is 1 if a required key
\* is missing, if the process holds no access token or no verified Komoot
\* session (an authentication failed), if a transfer was counted as failed
\* or if an exception ended the run; it is 0 only when every required key
\* is there, both authentications went through and every transfer that was
\* attempted succeeded.
C22_ExitCode ==
  SyncEnded =>
    LET code == ExitStatus(ret) IN
    /\ code \in {0, 1}
    /\ ~(RequiredKeys \subseteq loc.config) => code = 1
    /\ access_token = NoToken => code = 1
    /\ connector # "verified" => code = 1
    /\ loc.results.failed > 0 => code = 1
    /\ ret.kind = "raise" => code = 1
    /\ code = 0 =>
         /\ RequiredKeys \subseteq loc.config
         /\ access_token # NoToken /\ connector = "verified"
         /\ loc.results.failed = 0
         /\ loc.results.success = Len(loc.attempted)
         /\ \A i \in 1..Len(loc.attempted) : loc.attempted[i] \in loc.synced

C22_Witness ==
  /\ SyncEnded /\ ExitStatus(ret) = 1 /\ ret.kind = "return"
  /\ loc.results.failed = 1 /\ loc.results.success = 1

\* The required credential keys of the vendors a command uses.
UsedKeys(l) ==
  IF l.top = "cmd_sync" THEN RequiredKeys
  ELSE IF l.top = "cmd_download" \/ l.source = "strava"
  THEN {"strava.client_id", "strava.client_secret", "strava.refresh_token"}
  ELSE {"komoot.email", "komoot.password"}

\* A run of the sync, download or list command.
CommandRun == loc.top \in {"cmd_sync", "cmd_download", "cmd_list"}

\* C23: a configuration error is reported before any network call: when a
\* required credential key of a vendor the sync, download or list command
\* uses is missing or empty, the command has ended with a non-zero code and
\* has made no request to either vendor, authentication included (no
\* request is recorded, no token was obtained, no connection was opened).
C23_ConfigFirst ==
  (CommandRun /\ ~(UsedKeys(loc) \subseteq loc.config)) =>
    /\ pc = "idle"
    /\ ExitStatus(ret) # 0
    /\ trace = <<>>
    /\ last = NoReq
    /\ access_token = NoToken
    /\ connector = NoConnector
    /\ ~authenticated

C23_Witness ==
  /\ loc.top = "cmd_list"
  /\ loc.source = "komoot"
  /\ loc.config = Range(ConfigKeys) \ {"komoot.password"}
  /\ pc = "idle"
  /\ ret.kind = "return"
  /\ ret.val = 1
  /\ trace = <<>>

\* C24 as stated: authenticate() never raises: every failure of the token
\* exchange, a response that lacks the access token or the expiry included,
\* ends with a negative result, and a positive result is returned only
\* with both the access token and its expiry stored.
C24_Original ==
  (loc.top = "authenticate" /\ pc = "idle") =>
    /\ ret.kind = "return"
    /\ ret.val \in {"True", "False"}
    /\ ret.val = "True" => (access_token # NoToken /\ token_expires_at # NoExpiry)

\* The positions of the requests of a kind in the trace of the running call.
Requests(kind) == {i \in 1..Len(trace) : trace[i][1] = kind}

\* The detail fetch of sync_activity has answered with the activity.
DetailObtained(id) ==
  Len(trace) >= 1 /\ trace[1][1] = "detail" /\ trace[1][2] = id /\ trace[1][3] = "ok"

\* C25: sync_activity runs its stages in the order detail fetch, track
\* export, sport resolution, upload, log append: the first request is the
\* detail fetch; the export is requested only after the detail fetch
\* answered with the activity; the upload is sent only after the export
\* returned a track that is neither absent nor empty, carries the resolved
\* sport and is the last request; at most one upload is sent; no entry is
\* appended before the upload stage and at most one after it; and the call
\* returns True exactly when the upload returned a result.
C25_StageOrder ==
  loc.top = "sync_activity" =>
    LET id == loc.activity_id IN
    /\ trace # <<>> => (trace[1][1] = "detail" /\ trace[1][2] = id)
    /\ \A j \in Requests("export_gpx") : j = 2 /\ DetailObtained(id)
    /\ \A j \in Requests("upload") :
         /\ j = Len(trace)
         /\ Requests("export_gpx") # {}
         /\ loc.gpx_data # NoneGpx
         /\ loc.gpx_data # EmptyBytes
         /\ trace[j][2] = id
         /\ trace[j][4] = (IF loc.sport_override # "" THEN loc.sport_override
                           ELSE map_strava_to_komoot_sport(ActType(id)))
    /\ Cardinality(Requests("upload")) <= 1
    /\ pc # "idle" => Len(sync_log) = loc.len0
    /\ Len(sync_log) <= loc.len0 + 1
    /\ Len(sync_log) > loc.len0 => (DetailObtained(id) /\ loc.gpx_data # NoneGpx
                                    /\ loc.gpx_data # EmptyBytes)
    /\ (pc = "idle" /\ ret.kind = "return") =>
         (ret.val <=> \E j \in Requests("upload") : trace[j][3] = "accepted")

C25_Witness ==
  /\ loc.top = "sync_activity"
  /\ pc = "idle"
  /\ ret.kind = "return"
  /\ ret.val = TRUE
  /\ Len(trace) = 5
  /\ trace[5][1] = "upload"
  /\ Len(sync_log) = loc.len0 + 1

\* A sync command has ended with an exception that left the bulk transfer.
SyncAborted == loc.top = "cmd_sync" /\ pc = "idle" /\ ret.kind = "raise"

\* C26 as stated: every completed transfer attempt is checkpointed in the
\* log file: when a sync run ends with an exception in the middle of the
\* bulk transfer, the file holds the entries of all the attempts completed
\* before the abort (the whole log of the run, loaded entries and appended
\* ones).
C26_Original ==
  (SyncAborted /\ sync_log # <<>>) =>
    /\ log_file.exists
    /\ log_file.kind = "json"
    /\ log_file.entries = JsonDump(sync_log)

\* The entries the running sync command has appended since its load step.
Appended == SubSeq(sync_log, loc.nloaded + 1, Len(sync_log))

\* The save step of a sync command writes the log to the file.
SaveWrites ==
  /\ loc.top = "cmd_sync"
  /\ pc = "cmd_save"
  /\ pc' = "idle"
  /\ log_file'.kind = "json"
  /\ log_file'.entries = JsonDump(sync_log)

\* C27 as stated: history is retained across runs: when the save step of a
\* sync command has written the file, the file holds every entry it held
\* before the run, in the same order, followed by the entries appended in
\* this run, whatever the state of the file before the run, a file whose
\* load fails included.
C27_Original ==
  [][SaveWrites => log_file'.entries = log_file.entries \o JsonDump(Appended)]_vars

\* A call of get_activities, of either client.
Listing == loc.top \in {"get_activities", "downloader_get_activities"}

\* The requests of a listing so far: the pages 1, 2, 3, ... each once; every
\* request but the last was answered with a non-empty page; while the loop
\* runs the page to request is the one after the last request.
PagesInOrder ==
  Listing =>
    /\ \A i \in 1..Len(trace) :
         /\ trace[i][1] = "list"
         /\ trace[i][2] = i
         /\ i < Len(trace) => (trace[i][3] = "ok" /\ PageOf(loc.listing, i) # <<>>)
    /\ pc # "idle" => loc.page = Len(trace) + 1

\* C28: get_activities terminates when the origin service answers a page
\* request with an empty page or a failure (it does on every run here: a
\* listing is finite): a call in its loop leads to the end of the call;
\* the page number grows by one per non-empty page, no page is requested
\* twice and a failed page is not requested again.
C28_Terminates ==
  /\ []PagesInOrder
  /\ (Listing /\ pc # "idle") ~> (Listing /\ pc = "idle")

C28_Witness ==
  /\ loc.top = "get_activities"
  /\ pc = "idle"
  /\ ret.kind = "return"
  /\ Len(trace) = 2
  /\ trace[2][3] = "error"
  /\ ret.val = PageOf(loc.listing, 1)
  /\ Len(loc.listing) > PerPage

====
